---- MODULE Spec2Model ----
(***************************************************************************)
(* Model of the personal finance tracker: the rule-based classifier of     *)
(* categorize.py and the ledger operations of tracker.py (add_expense,     *)
(* add_income, import_file and the categorize command) over the CSV store. *)
(*                                                                         *)
(* Text (category, description) is a sequence of one-character strings, so *)
(* that lower-casing, stripping and keyword search are computed as the     *)
(* code computes them.  The store variable is the content of               *)
(* data/transactions.csv: every operation reads it through load_store      *)
(* (pandas read_csv, which turns the empty cell and the default NA tokens  *)
(* into NaN) and writes it back whole through to_csv (which writes NaN as  *)
(* the empty cell).  Amounts are floats in the code; the model draws them  *)
(* from integers, on which float arithmetic is exact.  The show and summary *)
(* commands only read the store and are not modelled.                      *)
(***************************************************************************)
EXTENDS Integers, Sequences, FiniteSets, TLC

VARIABLES
    store,   \* the rows of data/transactions.csv, as text cells
    prev,    \* the rows of the file before the last command
    last,    \* the last command: its arguments, its result, the count it reports
    origin,  \* for each row of the store, the command that appended it
    frame    \* the DataFrame the last command passed to auto_categorize

vars == <<store, prev, last, origin, frame>>

\* Largest number of rows the store may hold in the model.
MaxRows == 3

----------------------------------------------------------------------------
(* Values *)

\* A missing text cell of a DataFrame (NaN in an object column).
TextNaN == <<"NaN">>

\* Python None, float('nan') and a float value, for optional amounts.
None == [k |-> "None", v |-> 0]

NaN == [k |-> "nan", v |-> 0]

Num(x) == [k |-> "num", v |-> x]

\* A date that could not be parsed (pandas NaT).
NaT == "NaT"

Food == <<"F","o","o","d">>

Transport == <<"T","r","a","n","s","p","o","r","t">>

Shopping == <<"S","h","o","p","p","i","n","g">>

Housing == <<"H","o","u","s","i","n","g">>

Health == <<"H","e","a","l","t","h">>

Pleasure == <<"P","l","e","a","s","u","r","e">>

Other == <<"O","t","h","e","r">>

Income == <<"I","n","c","o","m","e">>

UPI == <<"U","P","I">>

\* The category that requests auto-categorization according to add_expense's docstring.
Dash == <<"-">>

----------------------------------------------------------------------------
(* categorize.py *)

FoodKeywords ==
    << <<"s","t","a","r","b","u","c","k","s">>,
       <<"c","a","f","e">>,
       <<"r","e","s","t","a","u","r","a","n","t">>,
       <<"s","w","i","g","g","y">>,
       <<"z","o","m","a","t","o">>,
       <<"p","i","z","z","a">>,
       <<"m","a","g","g","i","e">>,
       <<"c","o","f","f","e","e">>,
       <<"b","u","r","g","e","r">> >>

TransportKeywords ==
    << <<"u","b","e","r">>,
       <<"o","l","a">>,
       <<"m","e","t","r","o">>,
       <<"b","u","s">>,
       <<"t","r","a","i","n">>,
       <<"c","a","b">>,
       <<"t","a","x","i">>,
       <<"a","u","t","o">>,
       <<"f","u","e","l">>,
       <<"p","e","t","r","o","l">>,
       <<"d","i","e","s","e","l">> >>

ShoppingKeywords ==
    << <<"a","m","a","z","o","n">>,
       <<"f","l","i","p","k","a","r","t">>,
       <<"m","y","n","t","r","a">>,
       <<"n","y","k","a","a">>,
       <<"z","a","r","a">>,
       <<"h","&","m">>,
       <<"m","a","l","l">>,
       <<"s","t","o","r","e">>,
       <<"e","a","r","p","h","o","n","e","s">>,
       <<"c","l","o","t","h","e","s">> >>

HousingKeywords ==
    << <<"r","e","n","t">>,
       <<"p","g">>,
       <<"m","a","i","n","t","e","n","a","n","c","e">>,
       <<"e","l","e","c","t","r","i","c","i","t","y">>,
       <<"w","a","t","e","r"," ","b","i","l","l">>,
       <<"g","a","s"," ","b","i","l","l">>,
       <<"w","i","f","i">>,
       <<"b","r","o","a","d","b","a","n","d">> >>

HealthKeywords ==
    << <<"p","h","a","r","m","a","c","y">>,
       <<"c","h","e","m","i","s","t">>,
       <<"d","o","c","t","o","r">>,
       <<"h","o","s","p","i","t","a","l">>,
       <<"c","l","i","n","i","c">>,
       <<"m","e","d","i","c","i","n","e">>,
       <<"g","y","m">> >>

PleasureKeywords ==
    << <<"m","o","v","i","e">>,
       <<"c","i","n","e","m","a">>,
       <<"n","e","t","f","l","i","x">>,
       <<"s","p","o","t","i","f","y">>,
       <<"p","r","i","m","e">>,
       <<"g","a","m","i","n","g">>,
       <<"p","s">>,
       <<"s","t","e","a","m">> >>

\* CATEGORY_RULES in dict (insertion) order; each regex is an alternation of
\* literal keywords, and the last rule's ".*" matches every string.
CATEGORY_RULES ==
    << [cat |-> Food,      any |-> FALSE, keywords |-> FoodKeywords],
       [cat |-> Transport, any |-> FALSE, keywords |-> TransportKeywords],
       [cat |-> Shopping,  any |-> FALSE, keywords |-> ShoppingKeywords],
       [cat |-> Housing,   any |-> FALSE, keywords |-> HousingKeywords],
       [cat |-> Health,    any |-> FALSE, keywords |-> HealthKeywords],
       [cat |-> Pleasure,  any |-> FALSE, keywords |-> PleasureKeywords],
       [cat |-> Other,     any |-> TRUE,  keywords |-> << >>] >>

\* str.lower() on one character.
LowerChar(c) ==
    CASE c = "A" -> "a"
      [] c = "B" -> "b"
      [] c = "C" -> "c"
      [] c = "D" -> "d"
      [] c = "E" -> "e"
      [] c = "F" -> "f"
      [] c = "G" -> "g"
      [] c = "H" -> "h"
      [] c = "I" -> "i"
      [] c = "J" -> "j"
      [] c = "K" -> "k"
      [] c = "L" -> "l"
      [] c = "M" -> "m"
      [] c = "N" -> "n"
      [] c = "O" -> "o"
      [] c = "P" -> "p"
      [] c = "Q" -> "q"
      [] c = "R" -> "r"
      [] c = "S" -> "s"
      [] c = "T" -> "t"
      [] c = "U" -> "u"
      [] c = "V" -> "v"
      [] c = "W" -> "w"
      [] c = "X" -> "x"
      [] c = "Y" -> "y"
      [] c = "Z" -> "z"
      [] OTHER -> c

\* str.lower() (categorize.py line 20).
Lower(s) ==
    IF s = << >> THEN << >> ELSE [i \in 1..Len(s) |-> LowerChar(s[i])]

\* astype(str): a missing cell becomes the text "nan".
Str(x) ==
    IF x = TextNaN THEN <<"n","a","n">> ELSE x

RECURSIVE LStrip(_)
LStrip(s) ==
    IF s # << >> /\ Head(s) = " " THEN LStrip(Tail(s)) ELSE s

RECURSIVE RStrip(_)
RStrip(s) ==
    IF s # << >> /\ s[Len(s)] = " " THEN RStrip(SubSeq(s, 1, Len(s) - 1)) ELSE s

\* str.strip() over the model's only whitespace character, the blank.
strip(s) ==
    RStrip(LStrip(s))

\* The literal keyword p occurs somewhere in s.
Contains(s, p) ==
    \E i \in 1..(Len(s) - Len(p) + 1) : \A j \in 1..Len(p) : s[i + j - 1] = p[j]

\* re.search(pat, desc) for the one pattern of a rule.
re_search(rule, desc) ==
    rule.any \/ \E k \in 1..Len(rule.keywords) : Contains(desc, rule.keywords[k])

\* first_match with a fault: a later matching keyword rule replaces an earlier one.
RECURSIVE first_match_last_wins(_, _)
first_match_last_wins(desc, i) ==
    IF i >= Len(CATEGORY_RULES) THEN Other
    ELSE LET later == first_match_last_wins(desc, i + 1) IN
         IF later # Other THEN later
         ELSE IF re_search(CATEGORY_RULES[i], desc) THEN CATEGORY_RULES[i].cat
         ELSE Other

\* The loop of classify over CATEGORY_RULES.items(), from rule i on.
RECURSIVE first_match(_, _)
first_match(desc, i) ==
    IF i > Len(CATEGORY_RULES) THEN Other
    ELSE IF re_search(CATEGORY_RULES[i], desc) THEN CATEGORY_RULES[i].cat
    ELSE first_match(desc, i + 1)

\* pd.notna(existing) and str(existing).strip()
has_category(existing) ==
    existing # TextNaN /\ strip(existing) # << >>

classify(desc, existing) ==
    IF has_category(existing) THEN existing ELSE first_match(desc, 1)

\* The description column after line 20.
lowered(desc) ==
    Lower(Str(desc))

auto_categorize(df) ==
    IF df = << >> THEN df
    ELSE [i \in 1..Len(df) |->
            [df[i] EXCEPT !.description = lowered(df[i].description),
                          !.category = classify(lowered(df[i].description),
                                                df[i].category)]]

----------------------------------------------------------------------------
(* tracker.py: the store *)

\* The strings pandas.read_csv reads as NaN by default (keep_default_na).
NAValues ==
    { <<>>,
      <<"#","N","/","A">>,
      <<"#","N","/","A"," ","N","/","A">>,
      <<"#","N","A">>,
      <<"-","1",".","#","I","N","D">>,
      <<"-","1",".","#","Q","N","A","N">>,
      <<"-","N","a","N">>,
      <<"-","n","a","n">>,
      <<"1",".","#","I","N","D">>,
      <<"1",".","#","Q","N","A","N">>,
      <<"<","N","A",">">>,
      <<"N","/","A">>,
      <<"N","A">>,
      <<"N","U","L","L">>,
      <<"N","a","N">>,
      <<"N","o","n","e">>,
      <<"n","/","a">>,
      <<"n","a","n">>,
      <<"n","u","l","l">> }

----------------------------------------------------------------------------
(* Inputs of the commands *)

\* The calendar dates dateutil and pandas parse in the model.
Dates == {"2025-09-01", "2025-09-02"}

\* add --cat/--desc pairs: the auto sentinel, empty and blank categories, an
\* explicit category, and the category text NA.
TextArgs ==
    { [category |-> Dash,    description |-> <<"S","t","a","r","b","u","c","k","s"," ","C","o","f","f","e","e">>],
      [category |-> << >>,   description |-> <<"z","o","m","a","t","o"," ","m","a","l","l"," ","o","r","d","e","r">>],
      [category |-> <<" ">>, description |-> <<"G","i","f","t">>],
      [category |-> <<"N","A">>, description |-> <<"U","b","e","r">>],
      [category |-> <<"T","r","a","v","e","l">>, description |-> <<"N","U","L","L">>] }

ExpenseCalls ==
    { [date |-> "2025-09-01", category |-> t.category, description |-> t.description,
       money_spent |-> 150, money_left |-> Num(700), start_balance |-> None] :
         t \in TextArgs }
    \cup
    { [date |-> "2025-09-01", category |-> << >>, description |-> <<"g","y","m"," ","r","e","n","t">>,
       money_spent |-> m, money_left |-> l, start_balance |-> s] :
         m \in {20, 150}, l \in {None, Num(700)}, s \in {None, Num(1000)} }

IncomeCalls ==
    { [date |-> "2025-09-02",
       description |-> <<"P","o","c","k","e","t"," ","m","o","n","e","y">>,
       amount |-> 500, start_balance |-> s] : s \in {None, Num(0), Num(1000)} }

\* Files handed to import: one with the legacy amount column and no category
\* or balance, one with every column, a bad date, a bad amount and an empty
\* balance.
Files ==
    [ legacy |->
        [columns |-> {"date", "description", "amount"},
         rows |-> << [date |-> "2025-09-02",
                      description |-> <<"A","m","a","z","o","n"," ","O","r","d","e","r">>,
                      amount |-> Num(300)] >>],
      full |->
        [columns |-> {"date", "category", "description", "money_spent", "money_left"},
         rows |-> << [date |-> "2025-09-01", category |-> <<"R","e","n","t">>,
                      description |-> <<"P","G"," ","r","e","n","t">>,
                      money_spent |-> Num(400), money_left |-> Num(600)],
                     [date |-> "someday", category |-> TextNaN,
                      description |-> <<"M","e","t","r","o"," ","c","a","r","d">>,
                      money_spent |-> [k |-> "str", v |-> 0], money_left |-> NaN] >>] ]

\* One text cell as read_csv returns it.
read_text(cell) ==
    IF cell \in NAValues THEN TextNaN ELSE cell

\* One text cell as to_csv writes it.
write_text(x) ==
    IF x = TextNaN THEN << >> ELSE x

\* pd.read_csv over the rows of the file, then the date column to dates.
read_csv(file) ==
    IF file = << >> THEN << >>
    ELSE [i \in 1..Len(file) |->
            [file[i] EXCEPT !.date = IF @ = "" THEN NaT ELSE @,
                            !.category = read_text(@),
                            !.description = read_text(@),
                            !.payment_method = read_text(@)]]

\* DataFrame.to_csv(STORE, index=False): the whole file is overwritten.
to_csv(df) ==
    IF df = << >> THEN << >>
    ELSE [i \in 1..Len(df) |->
            [df[i] EXCEPT !.date = IF @ = NaT THEN "" ELSE @,
                          !.category = write_text(@),
                          !.description = write_text(@),
                          !.payment_method = write_text(@)]]

load_store ==
    read_csv(store)

\* concat with a fault: the new rows are put before the existing ones.
concat_new_first(existing, new) ==
    new \o existing

\* pd.concat([existing, new], ignore_index=True)
concat(existing, new) ==
    existing \o new

\* last_balance with a fault: reads the first row (iloc[0]) instead of the last.
last_balance_first_row ==
    LET df == load_store IN
    IF df = << >> THEN None ELSE df[1].money_left

\* float(df.iloc[-1]["money_left"]): None for no rows, nan for an empty cell.
last_balance ==
    LET df == load_store IN
    IF df = << >> THEN None ELSE df[Len(df)].money_left

\* Minus with a fault: the amount is added to the base.
Minus_added(base, x) ==
    IF base.k = "num" THEN Num(base.v + x) ELSE NaN

\* base - spent in floats: nan stays nan.
Minus(base, x) ==
    IF base.k = "num" THEN Num(base.v - x) ELSE NaN

Plus(base, x) ==
    IF base.k = "num" THEN Num(base.v + x) ELSE NaN

\* or_zero with a fault: the "or 0.0" is left out.
or_zero_omitted(x) ==
    x

\* Python's "x or 0.0": None and 0.0 are falsy, nan is not.
or_zero(x) ==
    IF x = None \/ x = Num(0) THEN Num(0) ELSE x

----------------------------------------------------------------------------
(* The record of the last command and the provenance of each row *)

NoFile == "-"

Call(op, date, category, description, amount, money_left, start_balance, file, result, count) ==
    [op |-> op, date |-> date, category |-> category, description |-> description,
     amount |-> amount, money_left |-> money_left, start_balance |-> start_balance,
     file |-> file, result |-> result, count |-> count]

Origin(op, money_left, start_balance) ==
    [op |-> op, money_left |-> money_left, start_balance |-> start_balance]

----------------------------------------------------------------------------
(* tracker.py: the commands *)

\* The base balance of add_expense (lines 100-105).
expense_base(start_balance) ==
    IF start_balance # None THEN start_balance ELSE last_balance

\* The row add_expense builds (lines 110-123).
expense_row(date, category, description, money_spent, money_left, start_balance) ==
    [date |-> date, category |-> category, description |-> description,
     money_spent |-> money_spent,
     money_left |-> IF money_left = None
                    THEN Minus(expense_base(start_balance), money_spent)
                    ELSE money_left,
     payment_method |-> UPI]

\* missing_anchor with a fault: "money_left is not None" for "is None".
missing_anchor_inverted(money_left, start_balance) ==
    start_balance = None /\ last_balance = None /\ money_left # None

\* No base balance can be determined (lines 102-106).
missing_anchor(money_left, start_balance) ==
    start_balance = None /\ last_balance = None /\ money_left = None

add_expense(date, category, description, money_spent, money_left, start_balance) ==
    IF missing_anchor(money_left, start_balance)
    THEN \* raise SystemExit: nothing is written
         /\ store' = store
         /\ prev' = store
         /\ origin' = origin
         /\ frame' = << >>
         /\ last' = Call("add_expense", date, category, description, money_spent,
                         money_left, start_balance, NoFile, "SystemExit", 0)
    ELSE LET row == expense_row(date, category, description, money_spent,
                                money_left, start_balance)
             out == concat(load_store, <<row>>)
         IN /\ store' = to_csv(auto_categorize(out))
            /\ frame' = out
            /\ prev' = store
            /\ origin' = Append(origin, Origin("add_expense", money_left, start_balance))
            /\ last' = Call("add_expense", date, category, description, money_spent,
                            money_left, start_balance, NoFile, "ok", 1)

\* The base balance of add_income (lines 151-156).
income_base(start_balance) ==
    IF start_balance # None THEN start_balance ELSE or_zero(last_balance)

income_row(date, description, amount, start_balance) ==
    [date |-> date, category |-> Income, description |-> description,
     money_spent |-> -amount,
     money_left |-> Plus(income_base(start_balance), amount),
     payment_method |-> UPI]

add_income(date, description, amount, start_balance) ==
    LET row == income_row(date, description, amount, start_balance)
        out == concat(load_store, <<row>>)
    IN /\ store' = to_csv(auto_categorize(out))
       /\ frame' = out
       /\ prev' = store
       /\ origin' = Append(origin, Origin("add_income", None, start_balance))
       /\ last' = Call("add_income", date, Income, description, amount, None,
                       start_balance, NoFile, "ok", 1)

\* pd.to_datetime(..., errors="coerce").dt.date on one cell.
to_date(cell) ==
    IF cell \in Dates THEN cell ELSE NaT

\* pd.to_numeric(..., errors="coerce") on one cell.
to_numeric(cell) ==
    IF cell.k = "num" THEN cell ELSE NaN

\* The value of column col in raw row r, pd.NA when the file has no such column.
raw_text(file, r, col) ==
    IF col \in file.columns THEN r[col] ELSE TextNaN

raw_number(file, r, col) ==
    IF col \in file.columns THEN r[col] ELSE NaN

\* The rows of an import file in the store's schema.  The files of the model
\* carry lower-case, trimmed headers, so the renaming of line 27 is the
\* identity on them.
normalize_columns(file) ==
    LET spent(r) == IF "money_spent" \notin file.columns /\ "amount" \in file.columns
                    THEN r["amount"]
                    ELSE raw_number(file, r, "money_spent")
        fillna(x) == IF x = NaN THEN 0 ELSE x.v
    IN  [i \in 1..Len(file.rows) |->
            [date |-> IF "date" \in file.columns THEN to_date(file.rows[i]["date"]) ELSE NaT,
             category |-> raw_text(file, file.rows[i], "category"),
             description |-> raw_text(file, file.rows[i], "description"),
             money_spent |-> fillna(to_numeric(spent(file.rows[i]))),
             money_left |-> to_numeric(raw_number(file, file.rows[i], "money_left")),
             payment_method |-> UPI]]

import_file(path) ==
    LET df == auto_categorize(normalize_columns(Files[path]))
        out == concat(load_store, df)
    IN /\ store' = to_csv(auto_categorize(out))
       /\ frame' = out
       /\ prev' = store
       /\ origin' = origin \o [i \in 1..Len(df) |-> Origin("import_file", None, None)]
       /\ last' = Call("import_file", "", << >>, << >>, 0, None, None, path, "ok",
                       Len(df))

\* categorize_store with a fault: the rows are appended to the file (mode="a")
\* instead of overwriting it.
categorize_store_appending(file) ==
    file \o to_csv(auto_categorize(read_csv(file)))

\* The file the categorize command of main leaves (lines 279-281).
categorize_store(file) ==
    to_csv(auto_categorize(read_csv(file)))

\* The categorize command of main (lines 278-282).
categorize ==
    /\ store' = categorize_store(store)
    /\ frame' = load_store
    /\ prev' = store
    /\ origin' = origin
    /\ last' = Call("categorize", "", << >>, << >>, 0, None, None, NoFile, "ok", 0)

----------------------------------------------------------------------------
(* Specification *)

NoCall == Call("none", "", << >>, << >>, 0, None, None, NoFile, "ok", 0)

Init ==
    /\ store = << >>
    /\ prev = << >>
    /\ origin = << >>
    /\ frame = << >>
    /\ last = NoCall

AddExpense ==
    /\ Len(store) < MaxRows
    /\ \E c \in ExpenseCalls :
          add_expense(c.date, c.category, c.description, c.money_spent,
                      c.money_left, c.start_balance)

AddIncome ==
    /\ Len(store) < MaxRows
    /\ \E c \in IncomeCalls :
          add_income(c.date, c.description, c.amount, c.start_balance)

ImportFile ==
    \E path \in DOMAIN Files :
        /\ Len(store) + Len(Files[path].rows) <= MaxRows
        /\ import_file(path)

Categorize ==
    categorize

Next ==
    \/ AddExpense
    \/ AddIncome
    \/ ImportFile
    \/ Categorize

Spec == Init /\ [][Next]_vars

----------------------------------------------------------------------------
(* Properties *)

\* Sum of money_spent over rows 1..i of the file.
RECURSIVE SumSpent(_, _)
SumSpent(rows, i) ==
    IF i = 0 THEN 0 ELSE SumSpent(rows, i - 1) + rows[i].money_spent

\* Every row comes from add_expense, the first with a starting balance, none
\* with an explicit resulting balance or a further starting balance.
ChainedExpenses ==
    /\ Len(store) > 0
    /\ \A i \in 1..Len(origin) :
          /\ origin[i].op = "add_expense"
          /\ origin[i].money_left = None
          /\ (i = 1) <=> (origin[i].start_balance # None)

\* C1: in a ledger built from empty by add_expense calls only, the first with
\* starting balance B0 and none with an explicit resulting balance or another
\* starting balance, the i-th record's money_left is B0 minus the sum of
\* money_spent of records 1..i.
C1_BalanceChaining ==
    ChainedExpenses =>
        \A i \in 1..Len(store) :
            store[i].money_left
                = Num(origin[1].start_balance.v - SumSpent(store, i))

\* Three chained expenses with different amounts.
C1_Witness ==
    /\ ChainedExpenses
    /\ Len(store) >= 3
    /\ store[2].money_spent # store[3].money_spent

\* C2 as stated: every record with a predecessor and a set money_left has
\* money_left = the predecessor's money_left - its own money_spent.
C2_Original ==
    \A i \in 2..Len(store) :
        store[i].money_left # NaN =>
            /\ store[i - 1].money_left # NaN
            /\ store[i].money_left
                   = Num(store[i - 1].money_left.v - store[i].money_spent)

\* Row i was appended by add_expense or add_income with neither a starting
\* balance nor an explicit resulting balance, after a row with a set balance.
Derived(i) ==
    /\ origin[i].op \in {"add_expense", "add_income"}
    /\ origin[i].money_left = None
    /\ origin[i].start_balance = None
    /\ store[i - 1].money_left # NaN

\* C2 as amended: every record appended by add_expense or add_income without a
\* starting balance and without an explicit resulting balance, after a record
\* whose money_left is set, has money_left = the predecessor's money_left - its
\* own money_spent.
C2_DerivedBalance ==
    \A i \in 2..Len(store) :
        Derived(i) =>
            store[i].money_left
                = Num(store[i - 1].money_left.v - store[i].money_spent)

\* An income and then an expense, both derived from the preceding balance.
C2_Witness ==
    /\ Len(store) >= 3
    /\ Derived(2) /\ origin[2].op = "add_income"
    /\ Derived(3) /\ origin[3].op = "add_expense"

\* C3: add_expense on an empty ledger with neither a starting balance nor an
\* explicit resulting balance fails with the missing-anchor error and leaves
\* the ledger as it was.
C3_MissingAnchor ==
    (/\ last.op = "add_expense"
     /\ prev = << >>
     /\ last.start_balance = None
     /\ last.money_left = None)
    => (/\ last.result = "SystemExit"
        /\ store = prev
        /\ origin = << >>)

\* A failed add_expense on the empty ledger.
C3_Witness ==
    /\ last.op = "add_expense"
    /\ last.result = "SystemExit"
    /\ store = << >>

\* The base the claim gives add_income: the starting balance if given, else
\* the last record's money_left, else 0.
IncomeBase ==
    IF last.start_balance # None THEN last.start_balance
    ELSE IF prev # << >> THEN prev[Len(prev)].money_left
    ELSE Num(0)

\* C4: add_income with amount A always succeeds and appends exactly one record
\* with money_spent = -A and money_left = base + A, base being the starting
\* balance if given, else the last record's money_left, else 0.
C4_IncomeAppend ==
    last.op = "add_income" =>
        /\ last.result = "ok"
        /\ Len(store) = Len(prev) + 1
        /\ store[Len(store)].money_spent = -last.amount
        /\ store[Len(store)].money_left = Plus(IncomeBase, last.amount)
        /\ (prev = << >> /\ last.start_balance = None)
               => store[Len(store)].money_left = Num(last.amount)

\* An income of 500 appended to the empty ledger without a starting balance.
C4_Witness ==
    /\ last.op = "add_income"
    /\ prev = << >>
    /\ last.start_balance = None
    /\ store[1].money_left = Num(500)

\* C5 as stated: once a record holds a category that is non-empty after
\* trimming, no later command changes that record's category.
C5_WriteOnce ==
    [][\A i \in 1..Len(store) :
          strip(store[i].category) # << >> =>
              /\ Len(store') >= i
              /\ store'[i].category = store[i].category]_vars

\* C6 as stated: after add_expense with the auto sentinel "-" as category, the
\* stored record has the category the classifier derives from its description,
\* not the sentinel.
C6_AutoCategory ==
    (last.op = "add_expense" /\ last.result = "ok" /\ last.category = Dash)
    => (/\ store[Len(store)].category = first_match(lowered(last.description), 1)
        /\ store[Len(store)].category # Dash)

\* Every field of row b other than category equals that of row a.
SameButCategory(a, b) ==
    /\ a.date = b.date
    /\ a.description = b.description
    /\ a.money_spent = b.money_spent
    /\ a.money_left = b.money_left
    /\ a.payment_method = b.payment_method

\* C7 as stated: auto_categorize returns the records in the same order and
\* count, every field other than category (the description with its letter
\* case included) equal to the input's, and the category of the records that
\* had one unchanged.
C7_Frame ==
    LET out == auto_categorize(frame) IN
    /\ Len(out) = Len(frame)
    /\ \A i \in 1..Len(frame) :
          /\ SameButCategory(frame[i], out[i])
          /\ has_category(frame[i].category) => out[i].category = frame[i].category

\* The first Len(prev) rows of the store are the rows of prev, in order, with
\* date, money_spent and money_left unchanged.
PrevKept ==
    /\ Len(store) >= Len(prev)
    /\ \A i \in 1..Len(prev) :
          /\ store[i].date = prev[i].date
          /\ store[i].money_spent = prev[i].money_spent
          /\ store[i].money_left = prev[i].money_left

\* Row j of the imported file stands at position Len(prev) + j.
ImportedInOrder ==
    LET file == Files[last.file] IN
    \A j \in 1..Len(file.rows) :
        LET raw == file.rows[j]
            row == store[Len(prev) + j]
            amount == IF "money_spent" \in file.columns
                      THEN raw["money_spent"] ELSE raw["amount"]
        IN /\ raw["date"] \in Dates => row.date = raw["date"]
           /\ amount.k = "num" => row.money_spent = amount.v
           /\ "money_left" \in file.columns => row.money_left = raw["money_left"]

\* C8: every command leaves the records already in the ledger at the front, in
\* order, with date, money_spent and money_left unchanged; add_expense and
\* add_income add exactly one record at the end, import_file adds the imported
\* rows at the end in their order and reports their count, categorize adds
\* none.
C8_AppendOnly ==
    /\ PrevKept
    /\ (last.op \in {"add_expense", "add_income"} /\ last.result = "ok")
           => /\ Len(store) = Len(prev) + 1
              /\ store[Len(store)].date = last.date
              /\ store[Len(store)].money_spent
                     = IF last.op = "add_expense" THEN last.amount ELSE -last.amount
    /\ last.op = "import_file"
           => /\ Len(store) = Len(prev) + Len(Files[last.file].rows)
              /\ last.count = Len(Files[last.file].rows)
              /\ ImportedInOrder
    /\ last.op = "categorize" => Len(store) = Len(prev)

\* A two-row import onto a non-empty ledger.
C8_Witness ==
    /\ last.op = "import_file"
    /\ last.file = "full"
    /\ Len(prev) >= 1
    /\ prev[1].money_spent # store[Len(store)].money_spent

\* The order of the rules the claim names.
RuleOrder ==
    <<Food, Transport, Shopping, Housing, Health, Pleasure, Other>>

\* cat is the label of the first rule, in RuleOrder, with a pattern matching desc.
FirstRuleLabel(desc, cat) ==
    \E r \in 1..Len(RuleOrder) :
        /\ cat = RuleOrder[r]
        /\ CATEGORY_RULES[r].cat = RuleOrder[r]
        /\ re_search(CATEGORY_RULES[r], desc)
        /\ \A q \in 1..(r - 1) : ~re_search(CATEGORY_RULES[q], desc)

ZomatoMallOrder ==
    <<"z","o","m","a","t","o"," ","m","a","l","l"," ","o","r","d","e","r">>

\* A description matching no keyword of the six specific rules.
NoKeyword(desc) ==
    \A r \in 1..(Len(CATEGORY_RULES) - 1) : ~re_search(CATEGORY_RULES[r], desc)

\* C9: a record whose category was empty gets the label of the first rule, in
\* the order Food, Transport, Shopping, Housing, Health, Pleasure, Other, with
\* a pattern matching the lower-cased description; "zomato mall order" gets
\* Food, a description matching no specific rule gets Other, and the label is
\* never empty.
C9_FirstMatchWins ==
    \A i \in 1..Len(frame) :
        ~has_category(frame[i].category) =>
            LET desc == lowered(frame[i].description)
                cat == store[i].category
            IN /\ FirstRuleLabel(desc, cat)
               /\ cat # << >>
               /\ desc = ZomatoMallOrder => cat = Food
               /\ NoKeyword(desc) => cat = Other

\* "zomato mall order" classified as Food in a ledger where an earlier row
\* was classified as well.
C9_Witness ==
    /\ Len(store) >= 2
    /\ \E i \in 1..Len(frame) :
          /\ ~has_category(frame[i].category)
          /\ frame[i].description = ZomatoMallOrder
          /\ store[i].category = Food
    /\ \E i \in 1..Len(frame) :
          /\ ~has_category(frame[i].category)
          /\ frame[i].description # ZomatoMallOrder
          /\ store[i].category = Transport

\* C10: after a run of the categorize command, a second run leaves the ledger
\* identical, in every field of every record, to the ledger after the first.
C10_Idempotent ==
    last.op = "categorize" => categorize_store(store) = store

\* A categorize run that changed the ledger, so that a second run has
\* something it could change again.
C10_Witness ==
    /\ last.op = "categorize"
    /\ store # prev
    /\ categorize_store(store) = store

====
